---- MODULE Spec2Model ----
(***************************************************************************)
(* Model of c-hashtable (joelguittet/c-hashtable): a chained hash table    *)
(* with string keys, guarded by one semaphore.  The heap is explicit:      *)
(* elements live at addresses of a pool, values are pointers, and every    *)
(* public function is split at its sem_wait so that threads interleave.    *)
(***************************************************************************)
EXTENDS Integers, Sequences, FiniteSets, TLC

(***************************************************************************)
(* Bounds of the model.                                                    *)
(***************************************************************************)
MaxSize == 2        \* bucket counts 1..MaxSize are explored
MaxCount == 3       \* hashtable->count is kept at or below this value
MaxBuckets == 3     \* bucket counts 1..MaxBuckets are hashed into
MaxKeyLen == 2      \* keys of up to this many bytes are hashed
MaxVals == 2        \* number of value blocks malloc can hand out

Threads == {1, 2}

\* Keys are C strings, given as their bytes: "a", "b", "c".
KeyList == <<(<<97>>), (<<98>>), (<<99>>)>>
Keys == {KeyList[i] : i \in 1..Len(KeyList)}

NULL == 0

\* Addresses of hashtable_element_t blocks (one more than there are keys).
ElemAddrs == 1..(Cardinality(Keys) + 1)

\* Addresses of value blocks allocated by the table, and of caller buffers.
ValAddrs == 1..MaxVals
CallerBufs == {101, 102}

\* Values of the size argument of hashtable_add.
Sizes == {0, 8}

\* The bytes of a value buffer: the caller's buffers and the copies are as
\* long as the largest size passed.
BufLen == CHOOSE s \in Sizes : \A r \in Sizes : r <= s
Bytes == {0, 1}

VARIABLES
    size,     \* hashtable->size
    alloc,    \* hashtable->alloc
    table,    \* hashtable->table: bucket index -> head element or NULL
    count,    \* hashtable->count
    sem,      \* value of hashtable->sem
    elems,    \* heap of elements: address -> [next, key, e] or NoElem
    vstat,    \* state of each value block / caller buffer
    mem,      \* bytes of each value block / caller buffer
    tstat,    \* state of the blocks of the hashtable_t and of its table
    pc,       \* per thread: "idle", "wait" (called, before sem_wait), "cs" (has
              \* the semaphore), "store" (hashtable_add after its loop), "abort"
    op,       \* per thread: the call in progress
    loc,      \* per thread: hash, last, curr of hashtable_add after its loop
    ret,      \* per thread: what the last completed call returned
    absmap    \* history: key -> value pointer stored by its last successful add

vars == <<size, alloc, table, count, sem, elems, vstat, mem, tstat, pc, op, loc, ret, absmap>>

tvars == <<table, count, elems, vstat>>

(***************************************************************************)
(* hashtable_compute_hash: djb2 in unsigned long arithmetic.  The hash is  *)
(* kept as little-endian limbs of 16 bits so that it wraps at the width of *)
(* unsigned long.                                                          *)
(***************************************************************************)
LimbBase == 65536
ULongLimbs == 4     \* unsigned long is 64 bits wide (LP64)
PlainCharSigned == TRUE

\* c = *key++ : a plain char converted to int.
CharToInt(b, signedChar) == IF signedChar /\ b >= 128 THEN b - 256 ELSE b

\* The int c converted to unsigned long, as limbs.
IntToULong(c) ==
    [i \in 1..ULongLimbs |->
        IF c >= 0 THEN (IF i = 1 THEN c ELSE 0)
        ELSE (IF i = 1 THEN LimbBase + c ELSE LimbBase - 1)]

Djb2Seed == [i \in 1..ULongLimbs |-> IF i = 1 THEN 5381 ELSE 0]

RECURSIVE MulAddCarry(_, _, _)
\* carry into limb i of h * 33 + c
MulAddCarry(h, c, i) ==
    IF i = 1 THEN 0
    ELSE (h[i - 1] * 33 + c[i - 1] + MulAddCarry(h, c, i - 1)) \div LimbBase

\* hash = ((hash << 5) + hash) + c, modulo 2^(16 * ULongLimbs)
Djb2Step(h, c) ==
    [i \in 1..ULongLimbs |-> (h[i] * 33 + c[i] + MulAddCarry(h, c, i)) % LimbBase]

RECURSIVE Djb2(_, _, _)
Djb2(key, h, signedChar) ==
    IF key = <<>> THEN h
    ELSE Djb2(Tail(key), Djb2Step(h, IntToULong(CharToInt(Head(key), signedChar))), signedChar)

RECURSIVE ULongMod(_, _, _)
\* the value of the limbs h[i..ULongLimbs], modulo n (hash % hashtable->size)
ULongMod(h, i, n) ==
    IF i > ULongLimbs THEN 0
    ELSE (ULongMod(h, i + 1, n) * LimbBase + h[i]) % n

hashtable_compute_hash(key) == ULongMod(Djb2(key, Djb2Seed, PlainCharSigned), 1, size)

(***************************************************************************)
(* The heap.                                                               *)
(***************************************************************************)
\* A block of the element pool that is not allocated.
NoElem == [used |-> FALSE, kcopy |-> FALSE, next |-> NULL, key |-> <<>>, e |-> NULL]

\* malloc(sizeof(hashtable_element_t)) for an element that will hold key:
\* NULL, or a free address.  malloc may return any free block and the code
\* never compares addresses, so one address is picked per key (the lowest
\* free one when that address is taken).
HomeAddr(key) == CHOOSE i \in 1..Len(KeyList) : KeyList[i] = key

MallocElem(key, mayFail) ==
    LET free == {a \in ElemAddrs : ~elems[a].used}
    IN  (IF mayFail THEN {NULL} ELSE {})
        \cup (IF free = {} THEN {}
              ELSE IF HomeAddr(key) \in free THEN {HomeAddr(key)}
              ELSE {CHOOSE a \in free : \A b \in free : a <= b})

\* malloc(size) for a value: NULL, or a block never handed out before.
\* Freed blocks are not handed out again, so a pointer names one block
\* for the whole run.
MallocValue(vs, mayFail) ==
    LET free == {a \in ValAddrs : vs[a] = "unused"}
    IN  (IF mayFail THEN {NULL} ELSE {})
        \cup (IF free = {} THEN {} ELSE {CHOOSE a \in free : \A b \in free : a <= b})

\* strdup(key): may fail like any allocation.
StrdupOk(mayFail) == IF mayFail THEN BOOLEAN ELSE {TRUE}

\* free(p) on the value heap.
Free(vs, p) == [vs EXCEPT ![p] = "freed"]

\* free(p) is undefined when p is not a live block that malloc returned: a
\* caller's pointer (it may be a string literal, as in the example program)
\* or a block freed before.
BadFree(vs, p) == p \in CallerBufs \/ vs[p] # "live"

(***************************************************************************)
(* Calls and their results.                                                *)
(***************************************************************************)
NoOp == [name |-> "none", key |-> <<>>, e |-> NULL, size |-> 0]

\* hashtable_add(hashtable, key, e, size)
AddOps(keys, ptrs) ==
    {o \in [name : {"add"}, key : keys, e : ptrs, size : Sizes] :
        o.e = NULL => o.size = 0}

\* the functions that take a key only
KeyOps(keys) ==
    {[name |-> n, key |-> k, e |-> NULL, size |-> 0] :
        n \in {"has_key", "lookup", "remove"}, k \in keys}

\* hashtable_release(hashtable)
ReleaseOp == [name |-> "release", key |-> <<>>, e |-> NULL, size |-> 0]

\* the functions that take the table only
TableOps ==
    {[name |-> n, key |-> <<>>, e |-> NULL, size |-> 0] : n \in {"get_count", "get_keys"}}

\* What a call returned: name is the function, val the return value (a bool
\* as 0 or 1); for hashtable_get_keys, out tells what became of *keys and
\* keys lists the slots written, of the val slots allocated.
NoRet == [name |-> "none", val |-> 0, out |-> "unset", keys |-> <<>>]
RetVal(t, v) == [name |-> op[t].name, val |-> v, out |-> "unset", keys |-> <<>>]

NoLoc == [hash |-> 0, last |-> NULL, curr |-> NULL]

Running == \A t \in Threads : pc[t] # "abort"

\* Thread t is between its sem_wait and its sem_post.
InCS(t) == pc[t] \in {"cs", "store", "abort"}

InBody(t, name) == Running /\ pc[t] = "cs" /\ op[t].name = name

sem_post == sem' = sem + 1

Return(t, r) ==
    /\ pc' = [pc EXCEPT ![t] = "idle"]
    /\ ret' = [ret EXCEPT ![t] = r]
    /\ op' = [op EXCEPT ![t] = NoOp]
    /\ loc' = [loc EXCEPT ![t] = NoLoc]

\* The process dies inside the call of thread t (an undefined free).
Abort(t) ==
    /\ pc' = [pc EXCEPT ![t] = "abort"]
    /\ UNCHANGED <<size, alloc, mem, tstat, table, count, sem, elems, vstat, op, loc, ret, absmap>>

AbsPut(k, v) == [x \in DOMAIN absmap \cup {k} |-> IF x = k THEN v ELSE absmap[x]]
AbsDel(k) == [x \in DOMAIN absmap \ {k} |-> absmap[x]]

(***************************************************************************)
(* hashtable_create                                                        *)
(***************************************************************************)
Init ==
    /\ size \in 1..MaxSize
    /\ alloc \in BOOLEAN
    /\ table = [h \in 0..(size - 1) |-> NULL]
    /\ count = 0
    /\ sem = 1
    /\ elems = [a \in ElemAddrs |-> NoElem]
    /\ vstat = [p \in ValAddrs \cup CallerBufs |->
                    IF p \in CallerBufs THEN "live" ELSE "unused"]
    /\ mem = [p \in ValAddrs \cup CallerBufs |-> [i \in 1..BufLen |-> 0]]
    /\ tstat = [hashtable |-> "live", table |-> "live"]
    /\ pc = [t \in Threads |-> "idle"]
    /\ op = [t \in Threads |-> NoOp]
    /\ loc = [t \in Threads |-> NoLoc]
    /\ ret = [t \in Threads |-> NoRet]
    /\ absmap = <<>>

\* Before hashtable_create: no block is allocated.
InitCreate ==
    /\ size = 0
    /\ alloc = FALSE
    /\ table = <<>>
    /\ count = 0
    /\ sem = 0
    /\ elems = [a \in ElemAddrs |-> NoElem]
    /\ vstat = [p \in ValAddrs \cup CallerBufs |->
                    IF p \in CallerBufs THEN "live" ELSE "unused"]
    /\ mem = [p \in ValAddrs \cup CallerBufs |-> [i \in 1..BufLen |-> 0]]
    /\ tstat = [hashtable |-> "unused", table |-> "unused"]
    /\ pc = [t \in Threads |-> "idle"]
    /\ op = [t \in Threads |-> NoOp]
    /\ loc = [t \in Threads |-> NoLoc]
    /\ ret = [t \in Threads |-> NoRet]
    /\ absmap = <<>>

\* malloc of the hashtable_t, or of its table.
MallocBlock(mayFail) == IF mayFail THEN {"null", "block"} ELSE {"block"}

CreateRet(v) == [name |-> "create", val |-> v, out |-> "unset", keys |-> <<>>]

\* The failure as a bug would have it: free(hashtable) is forgotten.
CreateTableFailedLeak(t) ==
    /\ tstat' = [hashtable |-> "live", table |-> "unused"]
    /\ ret' = [ret EXCEPT ![t] = CreateRet(NULL)]
    /\ UNCHANGED <<size, alloc, table, count, sem>>

\* The malloc of the table failed: the hashtable_t is freed, NULL returned.
CreateTableFailed(t) ==
    /\ tstat' = [hashtable |-> "freed", table |-> "unused"]
    /\ ret' = [ret EXCEPT ![t] = CreateRet(NULL)]
    /\ UNCHANGED <<size, alloc, table, count, sem>>

\* hashtable_create(sz, al) called by thread t; a table is 1, not NULL.
hashtable_create(t, sz, al, mayFail) ==
    /\ pc[t] = "idle"
    /\ tstat.hashtable # "live"
    /\ \E h \in MallocBlock(mayFail) :
        IF h = "null"
        THEN /\ ret' = [ret EXCEPT ![t] = CreateRet(NULL)]
             /\ UNCHANGED <<size, alloc, table, count, sem, tstat>>
        ELSE \E b \in MallocBlock(mayFail) :
            IF b = "null" THEN CreateTableFailed(t)
            ELSE /\ tstat' = [hashtable |-> "live", table |-> "live"]
                 /\ table' = [x \in 0..(sz - 1) |-> NULL]
                 /\ count' = 0
                 /\ size' = sz
                 /\ alloc' = al
                 /\ sem' = 1
                 /\ ret' = [ret EXCEPT ![t] = CreateRet(1)]
    /\ UNCHANGED <<elems, vstat, mem, pc, op, loc, absmap>>

(***************************************************************************)
(* A thread calls a function, then takes the semaphore.                    *)
(***************************************************************************)
PendingAdds == Cardinality({u \in Threads : op[u].name = "add"})

Call(t, o) ==
    /\ Running
    /\ tstat.hashtable = "live"
    /\ pc[t] = "idle"
    /\ o.name = "add" => count + PendingAdds < MaxCount
    /\ pc' = [pc EXCEPT ![t] = "wait"]
    /\ op' = [op EXCEPT ![t] = o]
    /\ ret' = [ret EXCEPT ![t] = NoRet]
    /\ UNCHANGED <<size, alloc, mem, tstat, table, count, sem, elems, vstat, loc, absmap>>

\* sem_wait as a bug would have it: the caller goes on without the permit.
SemWaitNoBlock(t) ==
    /\ Running
    /\ pc[t] = "wait"
    /\ sem' = IF sem > 0 THEN sem - 1 ELSE sem
    /\ pc' = [pc EXCEPT ![t] = "cs"]
    /\ UNCHANGED <<size, alloc, mem, tstat, table, count, elems, vstat, op, loc, ret, absmap>>

sem_wait(t) ==
    /\ Running
    /\ pc[t] = "wait"
    /\ sem > 0
    /\ sem' = sem - 1
    /\ pc' = [pc EXCEPT ![t] = "cs"]
    /\ UNCHANGED <<size, alloc, mem, tstat, table, count, elems, vstat, op, loc, ret, absmap>>

\* The caller, outside any call, writes byte i of its buffer b.
CallerWrite(t, b, i, v) ==
    /\ Running
    /\ pc[t] = "idle"
    /\ vstat[b] = "live"
    /\ mem[b][i] # v
    /\ mem' = [mem EXCEPT ![b][i] = v]
    /\ UNCHANGED <<size, alloc, table, count, sem, elems, vstat, tstat, pc, op, loc, ret, absmap>>

(***************************************************************************)
(* hashtable_add                                                           *)
(***************************************************************************)
RECURSIVE AddScanBlind(_, _, _)
\* The loop as a bug would have it: the key comparison never matches.
AddScanBlind(last, curr, key) ==
    IF curr = NULL THEN [last |-> last, curr |-> NULL]
    ELSE AddScanBlind(curr, elems[curr].next, key)

RECURSIVE AddScan(_, _, _)
\* The while loop of hashtable_add: where it stops, as [last, curr].
AddScan(last, curr, key) ==
    IF curr = NULL THEN [last |-> last, curr |-> NULL]
    ELSE IF elems[curr].key = key THEN [last |-> last, curr |-> curr]
    ELSE AddScan(curr, elems[curr].next, key)

\* The condition as a bug would have it: the value is never copied.
CopyValueNever(e, sz) == FALSE

\* (true == hashtable->alloc) && (NULL != e) && (0 != size)
CopyValue(e, sz) == alloc /\ e # NULL /\ sz # 0

\* memcpy(dst, src, n) on the bytes dst of a block.
Memcpy(dst, src, n) == [i \in 1..Len(dst) |-> IF i <= n THEN src[i] ELSE dst[i]]

\* The memory after the value of the call of t is stored as p: the block
\* malloc returned is filled by memcpy(p, e, size) where the table copies.
MemcpyValue(t, p) ==
    IF CopyValue(op[t].e, op[t].size)
    THEN [mem EXCEPT ![p] = Memcpy(mem[p], mem[op[t].e], op[t].size)]
    ELSE mem

\* The update path returns -1: the malloc of the new value failed.
AddUpdateFailed(t, curr, vs) ==
    /\ elems' = [elems EXCEPT ![curr].e = NULL]
    /\ vstat' = vs
    /\ sem_post
    /\ Return(t, RetVal(t, -1))
    /\ UNCHANGED <<table, count, mem, absmap>>

\* The update as a bug would have it: the element is counted once more.
AddUpdateStoreCounted(t, curr, p, vs) ==
    /\ elems' = [elems EXCEPT ![curr].e = p]
    /\ vstat' = vs
    /\ sem_post
    /\ Return(t, RetVal(t, 0))
    /\ absmap' = AbsPut(op[t].key, p)
    /\ mem' = MemcpyValue(t, p)
    /\ count' = count + 1
    /\ UNCHANGED table

\* The update path returns 0 with curr->e = p.
AddUpdateStore(t, curr, p, vs) ==
    /\ elems' = [elems EXCEPT ![curr].e = p]
    /\ vstat' = vs
    /\ sem_post
    /\ Return(t, RetVal(t, 0))
    /\ absmap' = AbsPut(op[t].key, p)
    /\ mem' = MemcpyValue(t, p)
    /\ UNCHANGED <<table, count>>

\* Element found: free the old value (owning mode), store the new one.
AddUpdate(t, curr, mayFail) ==
    LET e == op[t].e
        sz == op[t].size
        old == elems[curr].e
        frees == alloc /\ old # NULL
        vs == IF frees THEN Free(vstat, old) ELSE vstat
    IN  \E outcome \in (IF frees /\ BadFree(vstat, old) THEN {"free", "abort"} ELSE {"free"}) :
            IF outcome = "abort" THEN Abort(t)
            ELSE IF CopyValue(e, sz)
            THEN \E m \in MallocValue(vs, mayFail) :
                    IF m = NULL THEN AddUpdateFailed(t, curr, vs)
                    ELSE AddUpdateStore(t, curr, m, [vs EXCEPT ![m] = "live"])
            ELSE AddUpdateStore(t, curr, e, vs)

\* The failure return as a bug would have it: sem_post is forgotten.
AddNewFailedNoPost(t, he) ==
    /\ Return(t, RetVal(t, -1))
    /\ UNCHANGED <<sem, table, count, elems, vstat, mem, absmap>>

\* The failure return as a bug would have it: the element is not freed.
AddNewFailedLeak(t, he) ==
    /\ elems' = IF he = NULL THEN elems
                ELSE [elems EXCEPT ![he] = [NoElem EXCEPT !.used = TRUE]]
    /\ sem_post
    /\ Return(t, RetVal(t, -1))
    /\ UNCHANGED <<table, count, vstat, mem, absmap>>

\* A failure return of the new-element path: the element he, when it was
\* allocated, is freed, and so is its key copy.
AddNewFailed(t, he) ==
    /\ elems' = IF he = NULL THEN elems ELSE [elems EXCEPT ![he] = NoElem]
    /\ sem_post
    /\ Return(t, RetVal(t, -1))
    /\ UNCHANGED <<table, count, vstat, mem, absmap>>

\* The link as a bug would have it: the element becomes the head.
AddNewLinkAtHead(t, hash, last, he, p, vs) ==
    /\ elems' = [elems EXCEPT
                    ![he] = [used |-> TRUE, kcopy |-> TRUE, next |-> table[hash],
                             key |-> op[t].key, e |-> p]]
    /\ table' = [table EXCEPT ![hash] = he]
    /\ count' = count + 1
    /\ vstat' = vs
    /\ sem_post
    /\ Return(t, RetVal(t, 0))
    /\ absmap' = AbsPut(op[t].key, p)
    /\ mem' = MemcpyValue(t, p)

\* The link as a bug would have it: count++ is forgotten.
AddNewLinkNoCount(t, hash, last, he, p, vs) ==
    /\ LET linked == IF last = NULL THEN elems ELSE [elems EXCEPT ![last].next = he]
       IN  elems' = [linked EXCEPT
                        ![he] = [used |-> TRUE, kcopy |-> TRUE, next |-> NULL,
                                 key |-> op[t].key, e |-> p]]
    /\ table' = IF last = NULL THEN [table EXCEPT ![hash] = he] ELSE table
    /\ vstat' = vs
    /\ sem_post
    /\ Return(t, RetVal(t, 0))
    /\ absmap' = AbsPut(op[t].key, p)
    /\ mem' = MemcpyValue(t, p)
    /\ UNCHANGED count

\* Link the new element he, holding the value p, after last and count it.
AddNewLink(t, hash, last, he, p, vs) ==
    /\ LET linked == IF last = NULL THEN elems ELSE [elems EXCEPT ![last].next = he]
       IN  elems' = [linked EXCEPT
                        ![he] = [used |-> TRUE, kcopy |-> TRUE, next |-> NULL,
                                 key |-> op[t].key, e |-> p]]
    /\ table' = IF last = NULL THEN [table EXCEPT ![hash] = he] ELSE table
    /\ count' = count + 1
    /\ vstat' = vs
    /\ sem_post
    /\ Return(t, RetVal(t, 0))
    /\ absmap' = AbsPut(op[t].key, p)
    /\ mem' = MemcpyValue(t, p)

\* Element not found: allocate the element, the key copy and the value.
AddNew(t, hash, last, mayFail) ==
    LET e == op[t].e
        sz == op[t].size
    IN  \E he \in MallocElem(op[t].key, mayFail), keyOk \in StrdupOk(mayFail) :
            IF he = NULL \/ ~keyOk THEN AddNewFailed(t, he)
            ELSE IF CopyValue(e, sz)
            THEN \E m \in MallocValue(vstat, mayFail) :
                    IF m = NULL THEN AddNewFailed(t, he)
                    ELSE AddNewLink(t, hash, last, he, m, [vstat EXCEPT ![m] = "live"])
            ELSE AddNewLink(t, hash, last, he, e, vstat)

\* The first half as a bug would have it: the hash is not used, every key
\* goes to bucket 0.
AddScanFirstBucket(t) ==
    /\ InBody(t, "add")
    /\ LET s == AddScan(NULL, table[0], op[t].key)
       IN  loc' = [loc EXCEPT ![t] = [hash |-> 0, last |-> s.last, curr |-> s.curr]]
    /\ pc' = [pc EXCEPT ![t] = "store"]
    /\ UNCHANGED <<size, alloc, mem, tstat, table, count, sem, elems, vstat, op, ret, absmap>>

\* The first half of hashtable_add: the hash and the loop over the chain.
hashtable_add_scan(t) ==
    /\ InBody(t, "add")
    /\ LET hash == hashtable_compute_hash(op[t].key)
           s == AddScan(NULL, table[hash], op[t].key)
       IN  loc' = [loc EXCEPT ![t] = [hash |-> hash, last |-> s.last, curr |-> s.curr]]
    /\ pc' = [pc EXCEPT ![t] = "store"]
    /\ UNCHANGED <<size, alloc, mem, tstat, table, count, sem, elems, vstat, op, ret, absmap>>

\* The second half: update the element found, or link a new one.
hashtable_add(t, mayFail) ==
    /\ Running
    /\ pc[t] = "store"
    /\ IF loc[t].curr # NULL THEN AddUpdate(t, loc[t].curr, mayFail)
       ELSE AddNew(t, loc[t].hash, loc[t].last, mayFail)
    /\ UNCHANGED <<size, alloc, tstat>>

(***************************************************************************)
(* hashtable_get_count                                                     *)
(***************************************************************************)
hashtable_get_count(t) ==
    /\ InBody(t, "get_count")
    /\ sem_post
    /\ Return(t, RetVal(t, count))
    /\ UNCHANGED <<size, alloc, mem, tstat, table, count, elems, vstat, absmap>>

(***************************************************************************)
(* hashtable_has_key                                                       *)
(***************************************************************************)
RECURSIVE HasKeyScan(_, _)
\* The while loop of hashtable_has_key: found.
HasKeyScan(curr, key) ==
    IF curr = NULL THEN FALSE
    ELSE IF elems[curr].key = key THEN TRUE
    ELSE HasKeyScan(elems[curr].next, key)

HasKey(key) == HasKeyScan(table[hashtable_compute_hash(key)], key)

\* The function as a bug would have it: the loop advances the head of the
\* bucket instead of a cursor, up to the key or the end of the chain.
HasKeyMovesHead(t) ==
    /\ InBody(t, "has_key")
    /\ LET hash == hashtable_compute_hash(op[t].key)
           s == AddScan(NULL, table[hash], op[t].key)
       IN  table' = [table EXCEPT ![hash] = s.curr]
    /\ sem_post
    /\ Return(t, RetVal(t, IF HasKey(op[t].key) THEN 1 ELSE 0))
    /\ UNCHANGED <<size, alloc, mem, tstat, count, elems, vstat, absmap>>

hashtable_has_key(t) ==
    /\ InBody(t, "has_key")
    /\ sem_post
    /\ Return(t, RetVal(t, IF HasKey(op[t].key) THEN 1 ELSE 0))
    /\ UNCHANGED <<size, alloc, mem, tstat, table, count, elems, vstat, absmap>>

(***************************************************************************)
(* hashtable_get_keys                                                      *)
(***************************************************************************)
RECURSIVE ChainKeys(_)
\* The inner while loop of hashtable_get_keys: the keys of one chain.
ChainKeys(curr) ==
    IF curr = NULL THEN <<>>
    ELSE <<elems[curr].key>> \o ChainKeys(elems[curr].next)

RECURSIVE TableKeys(_)
\* The for loop of hashtable_get_keys, from bucket hash on.
TableKeys(hash) ==
    IF hash >= size THEN <<>>
    ELSE ChainKeys(table[hash]) \o TableKeys(hash + 1)

\* malloc(count * sizeof(char *)) for the array of keys.
MallocKeys(mayFail) == IF mayFail THEN {"null", "array"} ELSE {"array"}

\* The function as a bug would have it: the test of the count is missing.
GetKeysOfEmptyToo(t, mayFail) ==
    /\ InBody(t, "get_keys")
    /\ \E m \in MallocKeys(mayFail) :
            Return(t, [name |-> "get_keys", val |-> count, out |-> m,
                       keys |-> IF m = "array" THEN TableKeys(0) ELSE <<>>])
    /\ sem_post
    /\ UNCHANGED <<size, alloc, mem, tstat, table, count, elems, vstat, absmap>>

hashtable_get_keys(t, mayFail) ==
    /\ InBody(t, "get_keys")
    /\ IF 0 < count
       THEN \E m \in MallocKeys(mayFail) :
                Return(t, [name |-> "get_keys", val |-> count, out |-> m,
                           keys |-> IF m = "array" THEN TableKeys(0) ELSE <<>>])
       ELSE Return(t, RetVal(t, count))
    /\ sem_post
    /\ UNCHANGED <<size, alloc, mem, tstat, table, count, elems, vstat, absmap>>

(***************************************************************************)
(* hashtable_lookup                                                        *)
(***************************************************************************)
RECURSIVE LookupScan(_, _)
\* The while loop of hashtable_lookup: e.
LookupScan(curr, key) ==
    IF curr = NULL THEN NULL
    ELSE IF elems[curr].key = key THEN elems[curr].e
    ELSE LookupScan(elems[curr].next, key)

Lookup(key) == LookupScan(table[hashtable_compute_hash(key)], key)

\* The function as a bug would have it: sem_post is forgotten.
LookupNoPost(t) ==
    /\ InBody(t, "lookup")
    /\ Return(t, RetVal(t, Lookup(op[t].key)))
    /\ UNCHANGED <<size, alloc, mem, tstat, table, count, sem, elems, vstat, absmap>>

hashtable_lookup(t) ==
    /\ InBody(t, "lookup")
    /\ sem_post
    /\ Return(t, RetVal(t, Lookup(op[t].key)))
    /\ UNCHANGED <<size, alloc, mem, tstat, table, count, elems, vstat, absmap>>

(***************************************************************************)
(* hashtable_remove                                                        *)
(***************************************************************************)
\* The loop as a bug would have it: the first element is taken for the key.
RemoveScanAny(last, curr, key) == [last |-> last, curr |-> curr]

RECURSIVE RemoveScan(_, _, _)
\* The while loop of hashtable_remove: where it stops, as [last, curr].
RemoveScan(last, curr, key) ==
    IF curr = NULL THEN [last |-> last, curr |-> NULL]
    ELSE IF elems[curr].key = key THEN [last |-> last, curr |-> curr]
    ELSE RemoveScan(curr, elems[curr].next, key)

\* The unlink as a bug would have it: the rest of the chain is dropped.
RemoveUnlinkDropTail(t, hash, last, curr) ==
    /\ table' = IF last = NULL THEN [table EXCEPT ![hash] = NULL] ELSE table
    /\ elems' = IF last = NULL THEN [elems EXCEPT ![curr] = NoElem]
                ELSE [elems EXCEPT ![last].next = NULL, ![curr] = NoElem]
    /\ Return(t, RetVal(t, elems[curr].e))
    /\ absmap' = AbsDel(op[t].key)
    /\ UNCHANGED <<count, vstat>>

\* The unlink as a bug would have it: the value is freed as release does.
RemoveUnlinkFreesValue(t, hash, last, curr) ==
    /\ table' = IF last = NULL THEN [table EXCEPT ![hash] = elems[curr].next] ELSE table
    /\ elems' = IF last = NULL THEN [elems EXCEPT ![curr] = NoElem]
                ELSE [elems EXCEPT ![last].next = elems[curr].next, ![curr] = NoElem]
    /\ vstat' = IF alloc /\ elems[curr].e # NULL THEN Free(vstat, elems[curr].e) ELSE vstat
    /\ Return(t, RetVal(t, elems[curr].e))
    /\ absmap' = AbsDel(op[t].key)
    /\ UNCHANGED count

\* Element found: unlink it, free its key and the element, return its value.
RemoveUnlink(t, hash, last, curr) ==
    /\ table' = IF last = NULL THEN [table EXCEPT ![hash] = elems[curr].next] ELSE table
    /\ elems' = IF last = NULL THEN [elems EXCEPT ![curr] = NoElem]
                ELSE [elems EXCEPT ![last].next = elems[curr].next, ![curr] = NoElem]
    /\ Return(t, RetVal(t, elems[curr].e))
    /\ absmap' = AbsDel(op[t].key)
    /\ UNCHANGED <<count, vstat>>

hashtable_remove(t) ==
    /\ InBody(t, "remove")
    /\ LET hash == hashtable_compute_hash(op[t].key)
           s == RemoveScan(NULL, table[hash], op[t].key)
       IN  IF s.curr # NULL THEN RemoveUnlink(t, hash, s.last, s.curr)
           ELSE Return(t, RetVal(t, NULL)) /\ UNCHANGED <<table, elems, count, vstat, absmap>>
    /\ sem_post
    /\ UNCHANGED <<size, alloc, mem, tstat>>

(***************************************************************************)
(* hashtable_compute_hash, called on its own.                              *)
(***************************************************************************)
\* Bytes of the keys hashed: below and from 128 on (none is 0, which ends
\* the string).
HashBytes == {97, 127, 128, 255}

RECURSIVE KeysOfLen(_)
KeysOfLen(n) ==
    IF n = 0 THEN {<<>>}
    ELSE {Append(k, b) : k \in KeysOfLen(n - 1), b \in HashBytes}

HashKeys == UNION {KeysOfLen(n) : n \in 0..MaxKeyLen}

HashOps == {[name |-> "compute_hash", key |-> k, e |-> NULL, size |-> 0] : k \in HashKeys}

\* A table of 1..MaxBuckets buckets.
InitHash ==
    /\ size \in 1..MaxBuckets
    /\ alloc \in BOOLEAN
    /\ table = [h \in 0..(size - 1) |-> NULL]
    /\ count = 0
    /\ sem = 1
    /\ elems = [a \in ElemAddrs |-> NoElem]
    /\ vstat = [p \in ValAddrs \cup CallerBufs |->
                    IF p \in CallerBufs THEN "live" ELSE "unused"]
    /\ mem = [p \in ValAddrs \cup CallerBufs |-> [i \in 1..BufLen |-> 0]]
    /\ tstat = [hashtable |-> "live", table |-> "live"]
    /\ pc = [t \in Threads |-> "idle"]
    /\ op = [t \in Threads |-> NoOp]
    /\ loc = [t \in Threads |-> NoLoc]
    /\ ret = [t \in Threads |-> NoRet]
    /\ absmap = <<>>

\* hashtable_compute_hash(hashtable, key) returns; plain char is signed or
\* unsigned as the build has it.  The key hashed is kept with the result.
ComputeHash(t, signedChar) ==
    /\ pc[t] = "wait"
    /\ op[t].name = "compute_hash"
    /\ Return(t, [name |-> "compute_hash",
                  val |-> ULongMod(Djb2(op[t].key, Djb2Seed, signedChar), 1, size),
                  out |-> "unset", keys |-> <<op[t].key>>])
    /\ UNCHANGED <<size, alloc, mem, tstat, table, count, sem, elems, vstat, absmap>>

(***************************************************************************)
(* hashtable_release                                                       *)
(***************************************************************************)
RECURSIVE ChainElems(_)
\* The while loop of hashtable_release: the elements of one chain.
ChainElems(curr) ==
    IF curr = NULL THEN <<>>
    ELSE <<curr>> \o ChainElems(elems[curr].next)

RECURSIVE TableElems(_)
\* The for loop of hashtable_release, from bucket hash on.
TableElems(hash) ==
    IF hash >= size THEN <<>>
    ELSE ChainElems(table[hash]) \o TableElems(hash + 1)

\* (true == hashtable->alloc) && (NULL != tmp->e)
ReleaseFreesValue(a) == alloc /\ elems[a].e # NULL

RECURSIVE FreeEach(_, _, _)
\* free(tmp->e) for each element of walked from i on, on the value heap vs:
\* the heap afterwards, and whether a free was undefined.
FreeEach(vs, walked, i) ==
    IF i > Len(walked) THEN [vs |-> vs, bad |-> FALSE]
    ELSE IF ReleaseFreesValue(walked[i])
    THEN LET p == elems[walked[i]].e
             r == FreeEach(Free(vs, p), walked, i + 1)
         IN  [vs |-> r.vs, bad |-> r.bad \/ BadFree(vs, p)]
    ELSE FreeEach(vs, walked, i + 1)

\* Every key, value (owning mode) and element is freed, then the table,
\* the semaphore is posted and closed and the hashtable_t is freed.
hashtable_release(t) ==
    /\ InBody(t, "release")
    /\ LET walked == TableElems(0)
           r == FreeEach(vstat, walked, 1)
       IN  \E outcome \in (IF r.bad THEN {"free", "abort"} ELSE {"free"}) :
            IF outcome = "abort" THEN Abort(t)
            ELSE /\ elems' = [a \in ElemAddrs |->
                                IF \E i \in 1..Len(walked) : walked[i] = a
                                THEN NoElem ELSE elems[a]]
                 /\ vstat' = r.vs
                 /\ tstat' = [hashtable |-> "freed", table |-> "freed"]
                 /\ sem_post
                 /\ Return(t, RetVal(t, 0))
                 /\ UNCHANGED <<size, alloc, table, count, mem, absmap>>

\* hashtable_release called with NULL: the test of the pointer fails and
\* the function returns.
hashtable_release_null(t) ==
    /\ Running
    /\ pc[t] = "idle"
    /\ ret' = [ret EXCEPT ![t] = [name |-> "release", val |-> 0, out |-> "unset", keys |-> <<>>]]
    /\ UNCHANGED <<size, alloc, mem, tstat, table, count, sem, elems, vstat, pc, op, loc, absmap>>

\* A thread that is inside a function when hashtable_release has freed the
\* hashtable_t goes on in freed memory: it may read what the blocks held,
\* which the steps of its function do, or the process dies, which is this
\* step.
UseAfterRelease(t) ==
    /\ Running
    /\ tstat.hashtable = "freed"
    /\ pc[t] \in {"wait", "cs"}
    /\ Abort(t)

(***************************************************************************)
(* Specifications.                                                         *)
(***************************************************************************)
\* One caller with every argument; threads sharing the table with fewer.
MainThread == CHOOSE t \in Threads : \A u \in Threads : t <= u
\* (one caller buffer is enough in owning mode, where values are copied; a
\* pointer with size 0, which is stored as it is, is passed for one key)
SeqOps ==
    {o \in AddOps(Keys, {NULL} \cup (IF alloc THEN {101} ELSE CallerBufs)) :
        (o.e # NULL /\ o.size = 0) => o.key = KeyList[1]}
        \cup KeyOps(Keys) \cup TableOps
SharedKeys == {<<97>>, <<99>>}
SharedOps ==
    {o \in AddOps(SharedKeys, {101}) : o.size # 0} \cup KeyOps(SharedKeys) \cup TableOps

Step(t, ops) ==
    \/ \E o \in ops : Call(t, o)
    \/ sem_wait(t)
    \/ hashtable_add_scan(t)
    \/ hashtable_add(t, TRUE)
    \/ hashtable_get_count(t)
    \/ hashtable_has_key(t)
    \/ hashtable_get_keys(t, TRUE)
    \/ hashtable_lookup(t)
    \/ hashtable_remove(t)

\* Threads calling the table concurrently.
Next == \E t \in Threads : Step(t, SharedOps)

Spec == Init /\ [][Next]_vars

\* The threads are scheduled, so that a thread inside a function goes on,
\* and the semaphore is fair: a thread waiting in sem_wait is not passed
\* over for ever while the semaphore is posted again and again.
Body(t) ==
    \/ hashtable_add_scan(t)
    \/ hashtable_add(t, TRUE)
    \/ hashtable_get_count(t)
    \/ hashtable_has_key(t)
    \/ hashtable_get_keys(t, TRUE)
    \/ hashtable_lookup(t)
    \/ hashtable_remove(t)

Fairness == \A t \in Threads : WF_vars(Body(t)) /\ SF_vars(sem_wait(t))

\* What each thread calls: one adds and removes a key that the other looks
\* up, while the other adds a key colliding with it.
FairOps(t) ==
    IF t = MainThread
    THEN {o \in SharedOps : \/ o.name \in {"add", "remove"} /\ o.key = KeyList[1]
                            \/ o.name = "has_key" /\ o.key = KeyList[3]
                            \/ o.name = "get_keys"}
    ELSE {o \in SharedOps : \/ o.name = "add" /\ o.key = KeyList[3]
                            \/ o.name = "lookup" /\ o.key = KeyList[1]
                            \/ o.name = "get_count"}

NextFair ==
    \E t \in Threads :
        \/ \E o \in FairOps(t) : Call(t, o)
        \/ sem_wait(t)
        \/ hashtable_add_scan(t)
        \/ hashtable_add(t, TRUE)
        \/ hashtable_get_count(t)
        \/ hashtable_has_key(t)
        \/ hashtable_get_keys(t, TRUE)
        \/ hashtable_lookup(t)
        \/ hashtable_remove(t)

SpecFair == Init /\ [][NextFair]_vars /\ Fairness

\* A single caller.
NextSeq ==
    \/ \E o \in SeqOps : Call(MainThread, o)
    \/ sem_wait(MainThread)
    \/ hashtable_add_scan(MainThread)
    \/ hashtable_add(MainThread, TRUE)
    \/ hashtable_get_count(MainThread)
    \/ hashtable_has_key(MainThread)
    \/ hashtable_get_keys(MainThread, TRUE)
    \/ hashtable_lookup(MainThread)
    \/ hashtable_remove(MainThread)

SpecSeq == Init /\ [][NextSeq]_vars

\* Threads inserting disjoint sets of keys, with memory for every allocation.
OwnKeys(t) == IF t = MainThread THEN {<<97>>, <<98>>} ELSE {<<99>>}

UnusedValues == {a \in ValAddrs : vstat[a] = "unused"}
PendingCopies == {u \in Threads : op[u].name = "add" /\ CopyValue(op[u].e, op[u].size)}

CallInsert(t, o) ==
    /\ o.key \notin DOMAIN absmap
    /\ CopyValue(o.e, o.size) => Cardinality(UnusedValues) > Cardinality(PendingCopies)
    /\ Call(t, o)

NextDisjoint ==
    \E t \in Threads :
        \/ \E o \in AddOps(OwnKeys(t), {NULL, 101}) : CallInsert(t, o)
        \/ sem_wait(t)
        \/ hashtable_add_scan(t)
        \/ hashtable_add(t, FALSE)

SpecDisjoint == Init /\ [][NextDisjoint]_vars

\* A single caller that adds values to copy, looks them up and writes to one
\* of its buffers in between, at its first and last byte.
WrittenBufs == {101}
CopyOps == {o \in AddOps(SharedKeys, WrittenBufs) : o.size # 0} \cup KeyOps(SharedKeys)

NextCopy ==
    \/ \E o \in {q \in CopyOps : q.name \in {"add", "lookup"}} : Call(MainThread, o)
    \/ sem_wait(MainThread)
    \/ hashtable_add_scan(MainThread)
    \/ hashtable_add(MainThread, TRUE)
    \/ hashtable_lookup(MainThread)
    \/ \E b \in WrittenBufs, i \in {1, BufLen}, v \in Bytes : CallerWrite(MainThread, b, i, v)

SpecCopy == Init /\ [][NextCopy]_vars

\* A single caller that adds, looks up and removes, and at last releases.
NextRelease ==
    \/ \E o \in {q \in SeqOps : q.name \in {"add", "lookup", "remove"}} \cup {ReleaseOp} :
            Call(MainThread, o)
    \/ sem_wait(MainThread)
    \/ hashtable_add_scan(MainThread)
    \/ hashtable_add(MainThread, TRUE)
    \/ hashtable_lookup(MainThread)
    \/ hashtable_remove(MainThread)
    \/ hashtable_release(MainThread)

SpecRelease == Init /\ [][NextRelease]_vars

\* A single caller that creates the table, then adds and looks up.
NextCreate ==
    \/ \E sz \in 1..MaxSize, al \in BOOLEAN : hashtable_create(MainThread, sz, al, TRUE)
    \/ \E o \in {q \in SeqOps : q.name \in {"add", "lookup"}} : Call(MainThread, o)
    \/ sem_wait(MainThread)
    \/ hashtable_add_scan(MainThread)
    \/ hashtable_add(MainThread, TRUE)
    \/ hashtable_lookup(MainThread)

SpecCreate == InitCreate /\ [][NextCreate]_vars

\* The hash function applied to keys of all bytes.
NextHash ==
    \/ \E o \in HashOps : Call(MainThread, o)
    \/ \E signedChar \in BOOLEAN : ComputeHash(MainThread, signedChar)

SpecHash == InitHash /\ [][NextHash]_vars

\* A single caller that only adds, and reads the count.
NextAdds ==
    \/ \E o \in {q \in SeqOps : q.name \in {"add", "get_count"}} : Call(MainThread, o)
    \/ sem_wait(MainThread)
    \/ hashtable_add_scan(MainThread)
    \/ hashtable_add(MainThread, TRUE)
    \/ hashtable_get_count(MainThread)

SpecAdds == Init /\ [][NextAdds]_vars

\* One thread adds to the table and releases it while the other threads
\* read it.
InFlightOps(t) ==
    IF t = MainThread
    THEN {o \in SharedOps : o.name = "add"} \cup {ReleaseOp}
    ELSE {o \in SharedOps : o.name \in {"lookup", "get_count"}}

NextInFlight ==
    \E t \in Threads :
        \/ \E o \in InFlightOps(t) : Call(t, o)
        \/ sem_wait(t)
        \/ hashtable_add_scan(t)
        \/ hashtable_add(t, TRUE)
        \/ hashtable_get_count(t)
        \/ hashtable_lookup(t)
        \/ hashtable_release(t)
        \/ hashtable_release_null(t)
        \/ UseAfterRelease(t)

SpecInFlight == Init /\ [][NextInFlight]_vars

\* A single caller that adds one buffer under every key, finds, looks up
\* and removes every key, and reads the count and the keys.
ChainOps ==
    {o \in SeqOps : \/ o.name # "add"
                    \/ o.name = "add" /\ o.e = 101 /\ o.size = BufLen}

NextChains ==
    \/ \E o \in ChainOps : Call(MainThread, o)
    \/ sem_wait(MainThread)
    \/ hashtable_add_scan(MainThread)
    \/ hashtable_add(MainThread, TRUE)
    \/ hashtable_get_count(MainThread)
    \/ hashtable_has_key(MainThread)
    \/ hashtable_get_keys(MainThread, TRUE)
    \/ hashtable_lookup(MainThread)
    \/ hashtable_remove(MainThread)

SpecChains == Init /\ [][NextChains]_vars

(***************************************************************************)
(* Properties.                                                             *)
(***************************************************************************)
\* The number of entries reachable by walking all bucket chains.
EntryCount == Len(TableKeys(0))

NoDuplicates(seq) == \A i, j \in 1..Len(seq) : seq[i] = seq[j] => i = j

\* Thread t completes its call in this step.
Completes(t, name) == op[t].name = name /\ pc[t] \in {"cs", "store"} /\ pc'[t] = "idle"

\* C1: the count field always equals the number of entries reachable by
\* walking all bucket chains.
CountIsEntryCount == count = EntryCount

\* C2: a hashtable_remove of a key that is present decrements the count by
\* exactly one.
RemoveDecrementsCount ==
    [][\A t \in Threads :
        (Completes(t, "remove") /\ HasKey(op[t].key)) => count' = count - 1]_vars

\* C3: for every bucket count the table is the map from keys to value
\* references built by the successful adds and the removes: has_key tells
\* whether the key is in it and lookup returns its reference, or NULL.
BehavesAsMap ==
    \A k \in Keys :
        /\ HasKey(k) <=> k \in DOMAIN absmap
        /\ Lookup(k) = IF k \in DOMAIN absmap THEN absmap[k] ELSE NULL

\* C4: no two entries hold equal keys, and hashtable_add on a key that is
\* present changes the value of its entry only: no entry is linked.
UniqueKeys == NoDuplicates(TableKeys(0))

AddPresentInPlace ==
    \A t \in Threads :
        (Completes(t, "add") /\ HasKey(op[t].key) /\ ret'[t].val = 0) =>
            /\ table' = table
            /\ TableKeys(0)' = TableKeys(0)
            /\ \A a \in ElemAddrs :
                /\ elems'[a].used = elems[a].used
                /\ elems'[a].next = elems[a].next
                /\ elems'[a].key = elems[a].key
                /\ elems[a].key # op[t].key => elems'[a].e = elems[a].e

KeysUniqueAddInPlace == []UniqueKeys /\ [][AddPresentInPlace]_vars

\* an add has replaced the value of a present key: its old copy is freed
UpdatedInPlace ==
    /\ ret[MainThread].name = "add"
    /\ ret[MainThread].val = 0
    /\ EntryCount = 3
    /\ \E k \in Keys, p \in ValAddrs :
        vstat[p] = "freed" /\ Lookup(k) \in ValAddrs /\ Lookup(k) > p

\* C5: a successful hashtable_get_keys returns the number of keys it wrote,
\* and these are pairwise distinct and are the keys inserted and not removed.
GetKeysReturnsWritten ==
    \A t \in Threads :
        (ret[t].name = "get_keys" /\ ret[t].out = "array") =>
            /\ ret[t].val = Len(ret[t].keys)
            /\ NoDuplicates(ret[t].keys)
            /\ {ret[t].keys[i] : i \in 1..Len(ret[t].keys)} = DOMAIN absmap

\* C6: a hashtable_add that returns -1 leaves the keys, the value of every
\* key and the count as they were.
FailedAddChangesNothing ==
    [][\A t \in Threads :
        (Completes(t, "add") /\ ret'[t].val = -1) =>
            /\ count' = count
            /\ TableKeys(0)' = TableKeys(0)
            /\ \A k \in Keys : Lookup(k)' = Lookup(k)]_vars

\* C7: at most one thread is between its sem_wait and its sem_post, the
\* semaphore is 0 or 1, and every step that reads or writes the table is
\* taken by a thread that holds the lock alone.
Mutex ==
    /\ sem \in {0, 1}
    /\ Cardinality({t \in Threads : InCS(t)}) <= 1

LockedAccess ==
    /\ tvars' # tvars => \E t \in Threads : InCS(t) /\ pc'[t] \in {"idle", "abort"}
    /\ \A t \in Threads :
        (pc[t] \in {"cs", "store"} /\ pc'[t] # pc[t]) =>
            sem = 0 /\ \A u \in Threads \ {t} : ~InCS(u)

MutualExclusion == []Mutex /\ [][LockedAccess]_vars

\* a thread is blocked on the semaphore while the other is in its section
BlockedOnSemaphore ==
    \E t, u \in Threads : pc[t] = "store" /\ pc[u] = "wait" /\ sem = 0

\* C8: every call posts the semaphore exactly once before it returns: the
\* permits are one less the threads inside, so one when no thread is inside.
LockReleasedOnReturn == sem = 1 - Cardinality({t \in Threads : InCS(t)})

\* both threads are back from hashtable_add, one of them with a failure
ReturnedFromFailedAdd ==
    /\ \A t \in Threads : pc[t] = "idle"
    /\ \E t, u \in Threads :
        /\ ret[t].name = "add" /\ ret[t].val = -1
        /\ ret[u].name = "get_keys" /\ ret[u].out = "null"
    /\ sem = 1

\* C9: concurrent inserts of disjoint key sets all return 0, the count is
\* the number of keys inserted, and every one is found with its value.
NoLostInsert ==
    /\ \A t \in Threads : ret[t].name = "add" => ret[t].val = 0
    /\ count = Cardinality(DOMAIN absmap)
    /\ \A k \in DOMAIN absmap : HasKey(k) /\ Lookup(k) = absmap[k]

\* both threads have inserted all their keys, which collide
AllInserted ==
    /\ \A t \in Threads : pc[t] = "idle" /\ ret[t].name = "add"
    /\ DOMAIN absmap = Keys
    /\ count = 3
    /\ table[0] # NULL /\ elems[table[0]].next # NULL

\* C10: in owning mode no thread holds a reference returned by
\* hashtable_lookup to a block that the table has freed.
NoDanglingLookup ==
    \A t \in Threads :
        (alloc /\ ret[t].name = "lookup" /\ ret[t].val \in ValAddrs) =>
            vstat[ret[t].val] # "freed"

\* C11: in owning mode every value pointer stored in an entry is NULL or a
\* live block that the table allocated, never a pointer of the caller, and
\* no buffer of the caller is freed by the table.
StoredValues == {elems[a].e : a \in {b \in ElemAddrs : elems[b].used}} \ {NULL}

OwnedValuesAreCopies ==
    alloc =>
        /\ \A p \in StoredValues : p \in ValAddrs /\ vstat[p] = "live"
        /\ \A b \in CallerBufs : vstat[b] = "live"

UpdateStoresLatest ==
    [][\A t \in Threads, k \in Keys :
        (Completes(t, "add") /\ op[t].key = k /\ HasKey(k) /\ ret'[t].val = 0) =>
            /\ count' = count
            /\ \A j \in Keys \ {k} : Lookup(j)' = Lookup(j)
            /\ \E v \in ValAddrs \cup CallerBufs \cup {NULL} :
                /\ v = Lookup(k)'
                /\ IF CopyValue(op[t].e, op[t].size)
                   THEN v \in ValAddrs /\ vstat[v] = "unused" /\ vstat'[v] = "live"
                   ELSE v = op[t].e]_vars

\* a key holding one buffer of the caller has been given the other one
\* while a colliding key kept its own
UpdatedToOtherBuffer ==
    /\ ~alloc
    /\ ret[MainThread].name = "add" /\ ret[MainThread].val = 0
    /\ count = 2
    /\ TableKeys(0) = <<KeyList[1], KeyList[3]>>
    /\ Lookup(KeyList[1]) = 102
    /\ Lookup(KeyList[3]) = 101

\* C14: from a fresh table, after any sequence of hashtable_add calls and
\* no removal, the count, and what hashtable_get_count returns, is the
\* number of distinct keys added with success.
CountIsDistinctKeysAdded ==
    /\ count = Cardinality(DOMAIN absmap)
    /\ \A t \in Threads :
        ret[t].name = "get_count" => ret[t].val = Cardinality(DOMAIN absmap)

\* three colliding keys were added, one of them twice, and then counted
CountedCollidingKeys ==
    /\ ret[MainThread].name = "get_count"
    /\ ret[MainThread].val = 3
    /\ size = 1
    /\ \E p \in ValAddrs : vstat[p] = "freed"

\* C15: hashtable_remove of an absent key returns NULL and leaves the
\* buckets, the chains, the stored values and the count as they were.
RemoveAbsentChangesNothing ==
    [][\A t \in Threads, k \in Keys :
        (Completes(t, "remove") /\ op[t].key = k /\ ~HasKey(k)) =>
            /\ ret'[t].val = NULL
            /\ tvars' = tvars]_vars

\* NULL came back from a remove although every value stored is non-NULL and
\* nothing was ever removed from the chain of two: the key was absent
RemovedAbsentFromChain ==
    /\ ret[MainThread].name = "remove"
    /\ ret[MainThread].val = NULL
    /\ count = 2
    /\ EntryCount = 2
    /\ table[0] # NULL /\ elems[table[0]].next # NULL
    /\ Cardinality(StoredValues) = 2

\* C16: a successful hashtable_add of a non-NULL e with size > 0 stores, in
\* owning mode, a block of its own holding the size bytes of e, and a later
\* write of the caller to its buffers changes no bytes seen through
\* hashtable_lookup; in the other mode it stores e itself, so that a write
\* to that buffer changes the bytes seen through hashtable_lookup.
CopyIsolatesValue ==
    [][/\ \A t \in Threads, k \in Keys :
            (/\ Completes(t, "add") /\ op[t].key = k /\ ret'[t].val = 0
             /\ op[t].e # NULL /\ op[t].size > 0) =>
                \E v \in ValAddrs \cup CallerBufs \cup {NULL} :
                    /\ v = Lookup(k)'
                    /\ IF alloc
                       THEN /\ v \in ValAddrs
                            /\ \A i \in 1..op[t].size : mem'[v][i] = mem[op[t].e][i]
                       ELSE v = op[t].e
       /\ \A b \in CallerBufs, k \in Keys :
            (mem'[b] # mem[b] /\ Lookup(k) # NULL) =>
                /\ Lookup(k)' = Lookup(k)
                /\ IF alloc THEN mem'[Lookup(k)] = mem[Lookup(k)]
                   ELSE Lookup(k) = b <=> mem'[Lookup(k)] # mem[Lookup(k)]]_vars

\* hashtable_lookup returned a copy that still holds the bytes its buffer
\* had when it was added, while the buffer has been overwritten since
LookupSeesOldBytes ==
    /\ alloc
    /\ ret[MainThread].name = "lookup"
    /\ ret[MainThread].val \in ValAddrs
    /\ mem[ret[MainThread].val][1] = 1 /\ mem[ret[MainThread].val][BufLen] = 0
    /\ mem[101][1] = 0 /\ mem[101][BufLen] = 1

\* C17: hashtable_remove frees the entry and its key copy, frees no value
\* and returns the value of the entry; the table then holds no reference
\* to that value, and no later call frees or returns a buffer that the
\* table holds no reference to.
Pointers == ValAddrs \cup CallerBufs
Holders(v) == {a \in ElemAddrs : elems[a].used /\ elems[a].e = v}

RemoveKeepsValue(t, k) ==
    /\ ret'[t].val = Lookup(k)
    /\ vstat' = vstat
    /\ \A a \in ElemAddrs :
        (elems[a].used /\ elems[a].key = k) => ~elems'[a].used /\ ~elems'[a].kcopy

UnreferencedUntouched ==
    \A p \in Pointers \ StoredValues :
        /\ vstat'[p] = "freed" => vstat[p] = "freed"
        /\ \A t \in Threads :
            (pc[t] # "idle" /\ pc'[t] = "idle" /\ ret'[t].name \in {"remove", "lookup"}) =>
                ret'[t].val # p

ReleaseFreesOwned(t) ==
    /\ pc'[t] = "idle"
    /\ tstat = [hashtable |-> "live", table |-> "live"]
    /\ tstat' = [hashtable |-> "freed", table |-> "freed"]
    /\ \A a \in ElemAddrs : ~elems'[a].used /\ ~elems'[a].kcopy
    /\ \A p \in Pointers :
        IF alloc /\ p \in StoredValues
        THEN p \in ValAddrs /\ vstat[p] = "live" /\ vstat'[p] = "freed"
        ELSE vstat'[p] = vstat[p]

CopiesAccounted ==
    \A p \in ValAddrs :
        /\ (p \in StoredValues /\ p \notin StoredValues') =>
                \/ vstat'[p] = "freed"
                \/ \E t \in Threads : Completes(t, "remove") /\ ret'[t].val = p
        /\ (vstat'[p] = "freed" /\ vstat[p] # "freed") => vstat[p] = "live"
        /\ (vstat[p] = "unused" /\ vstat'[p] = "live") => p \in StoredValues'

ReleaseFreesAllOnce ==
    [][/\ \A t \in Threads :
            (op[t].name = "release" /\ pc[t] = "cs") => ReleaseFreesOwned(t)
       /\ CopiesAccounted
       /\ ~alloc => vstat' = vstat
       /\ \A t \in Threads : pc'[t] # "abort"]_vars

\* C19: a hashtable_create or hashtable_add in which an allocation fails
\* returns NULL or -1 and leaves allocated no block that it allocated; one
\* in which no allocation fails returns a table or 0, and an add returns
\* 0 only with the key linked and its value stored.
CreateReports(t) ==
    IF ret'[t].val = NULL
    THEN tstat'.hashtable # "live" /\ tstat'.table # "live"
    ELSE /\ tstat' = [hashtable |-> "live", table |-> "live"]
         /\ sem' = 1 /\ count' = 0
         /\ \A h \in 0..(size' - 1) : table'[h] = NULL

FailedAddKeepsNoBlock ==
    /\ \A a \in ElemAddrs :
        /\ elems'[a].used => elems[a].used
        /\ elems'[a].kcopy => elems[a].kcopy
    /\ \A p \in ValAddrs : vstat'[p] = "live" => vstat[p] = "live"

AddDone(t, k) ==
    /\ HasKey(k)'
    /\ \E v \in Pointers \cup {NULL} :
        /\ v = Lookup(k)'
        /\ IF CopyValue(op[t].e, op[t].size) THEN v \in ValAddrs /\ vstat'[v] = "live"
           ELSE v = op[t].e

AllocationFailuresReported ==
    [][\A t \in Threads :
        /\ (tstat.hashtable # "live" /\ ret'[t].name = "create" /\ vars' # vars) =>
                CreateReports(t)
        /\ (\E sz \in 1..MaxSize, al \in BOOLEAN : hashtable_create(t, sz, al, FALSE)) =>
                ret'[t].val # NULL
        /\ (Completes(t, "add") /\ ret'[t].val = -1) => FailedAddKeepsNoBlock
        /\ \A k \in Keys :
            (Completes(t, "add") /\ op[t].key = k /\ ret'[t].val = 0) => AddDone(t, k)
        /\ (hashtable_add(t, FALSE) /\ pc'[t] = "idle") => ret'[t].val = 0]_vars

\* on a created owning table holding one key with its copy, the add of
\* another key has failed
AddFailedOnCreatedTable ==
    /\ tstat = [hashtable |-> "live", table |-> "live"]
    /\ ret[MainThread].name = "add" /\ ret[MainThread].val = -1
    /\ alloc
    /\ count = 1
    /\ \E p \in ValAddrs : vstat[p] = "live"
    /\ Cardinality({a \in ElemAddrs : elems[a].used}) = 1

\* C20: with threads that call the functions other than release, the
\* chains always end (within as many links as there are elements), the
\* semaphore is free whenever no thread is inside a function, and every
\* call that was made returns.
RECURSIVE EndsWithin(_, _)
EndsWithin(curr, n) ==
    IF curr = NULL THEN TRUE
    ELSE IF n = 0 THEN FALSE
    ELSE EndsWithin(elems[curr].next, n - 1)

ChainsEnd == \A h \in 0..(size - 1) : EndsWithin(table[h], Cardinality(ElemAddrs))

LockFreeWhenIdle == (\A t \in Threads : pc[t] \in {"idle", "wait"}) => sem = 1

EveryCallReturns ==
    /\ []ChainsEnd
    /\ []LockFreeWhenIdle
    /\ \A t \in Threads : (pc[t] = "wait") ~> (pc[t] = "idle")

\* a thread has called hashtable_add while the other one, inside
\* hashtable_remove, holds the semaphore on a table with a chain of two
RemoveHoldsAddWaits ==
    \E t, u \in Threads :
        /\ pc[t] = "cs" /\ op[t].name = "remove"
        /\ pc[u] = "wait" /\ op[u].name = "add"
        /\ sem = 0
        /\ table[0] # NULL /\ elems[table[0]].next # NULL

\* C21: a hashtable_add of a new key appends it to the chain of its bucket
\* and changes no other chain, any other add changes no chain, a
\* hashtable_remove takes the key out of its chain and keeps the order of
\* the others, and hashtable_get_keys lists the keys by ascending bucket
\* and, within a bucket, in the order of the chain.
BucketKeys(h) == ChainKeys(table[h])
Without(seq, k) == SelectSeq(seq, LAMBDA x : x # k)
Pos(seq, x) == CHOOSE i \in 1..Len(seq) : seq[i] = x

ListedInChainOrder(keys) ==
    /\ {keys[i] : i \in 1..Len(keys)} = {k \in Keys : HasKey(k)}
    /\ \A i, j \in 1..Len(keys) :
        i < j =>
            LET bi == hashtable_compute_hash(keys[i])
                bj == hashtable_compute_hash(keys[j])
            IN  \/ bi < bj
                \/ bi = bj /\ Pos(BucketKeys(bi), keys[i]) < Pos(BucketKeys(bi), keys[j])

ChainOrderIsInsertionOrder ==
    [][\A t \in Threads, k \in Keys :
        /\ (Completes(t, "add") /\ op[t].key = k) =>
                \A h \in 0..(size - 1) :
                    BucketKeys(h)' =
                        IF ret'[t].val = 0 /\ ~HasKey(k) /\ h = hashtable_compute_hash(k)
                        THEN BucketKeys(h) \o <<k>> ELSE BucketKeys(h)
        /\ (Completes(t, "remove") /\ op[t].key = k) =>
                \A h \in 0..(size - 1) : BucketKeys(h)' = Without(BucketKeys(h), k)
        /\ (Completes(t, "get_keys") /\ ret'[t].out = "array") =>
                ListedInChainOrder(ret'[t].keys)]_vars

\* with two buckets, hashtable_get_keys listed the two colliding keys of
\* the first bucket, in the order of their chain, before the key of the
\* second bucket
ListedByBucketThenChain ==
    /\ size = 2
    /\ ret[MainThread].name = "get_keys"
    /\ ret[MainThread].keys = <<KeyList[1], KeyList[3], KeyList[2]>>
    /\ table[0] = HomeAddr(KeyList[1])
    /\ count = 3

\* C22: the index returned by hashtable_compute_hash is, modulo the bucket
\* count, the djb2 hash of the bytes of the key as values 0..255, in
\* arithmetic that wraps at the width of unsigned long, and it is within
\* 0 .. bucket count - 1.
Djb2OfBytes(key) == Djb2(key, Djb2Seed, FALSE)

HashIsDjb2OfBytes ==
    \A t \in Threads :
        ret[t].name = "compute_hash" =>
            /\ ret[t].val \in 0..(size - 1)
            /\ ret[t].val = ULongMod(Djb2OfBytes(ret[t].keys[1]), 1, size)

\* C23: every chain ends at NULL within as many links as there are
\* elements and holds only keys that hash to its bucket, every allocated
\* element is in a chain, and so the loops of add, has_key, lookup and
\* remove over the hashed bucket find a key exactly when some chain of the
\* table holds it.
InSomeChain(k) ==
    \E h \in 0..(size - 1) : \E i \in 1..Len(BucketKeys(h)) : BucketKeys(h)[i] = k

Linked(a) ==
    \E h \in 0..(size - 1) : \E i \in 1..Len(ChainElems(table[h])) : ChainElems(table[h])[i] = a

EntriesInHashedBucket ==
    /\ ChainsEnd
    /\ \A h \in 0..(size - 1) :
        \A i \in 1..Len(BucketKeys(h)) : hashtable_compute_hash(BucketKeys(h)[i]) = h
    /\ \A a \in ElemAddrs : elems[a].used <=> Linked(a)
    /\ \A k \in Keys :
        LET first == table[hashtable_compute_hash(k)]
        IN  /\ HasKeyScan(first, k) <=> InSomeChain(k)
            /\ AddScan(NULL, first, k).curr # NULL <=> InSomeChain(k)
            /\ RemoveScan(NULL, first, k).curr # NULL <=> InSomeChain(k)
            /\ InSomeChain(k) => \E a \in ElemAddrs :
                    elems[a].key = k /\ Linked(a) /\ LookupScan(first, k) = elems[a].e

\* the second of two buckets holds one key, the first a chain of two, and
\* hashtable_has_key has found a key
FoundInTwoBuckets ==
    /\ size = 2
    /\ Len(BucketKeys(0)) = 2
    /\ Len(BucketKeys(1)) = 1
    /\ ret[MainThread].name = "has_key"
    /\ ret[MainThread].val = 1

\* C24: hashtable_get_count, hashtable_has_key, hashtable_lookup and
\* hashtable_get_keys change neither the table, the chains, the keys, the
\* value pointers, the count, the bucket count nor the alloc flag, in any
\* of their steps, and return with the semaphore at one permit.
ReadOps == {"get_count", "has_key", "lookup", "get_keys"}

ReadsChangeNothing ==
    [][\A t \in Threads :
        (op[t].name \in ReadOps /\ pc'[t] # pc[t]) =>
            /\ table' = table /\ elems' = elems /\ count' = count
            /\ size' = size /\ alloc' = alloc
            /\ vstat' = vstat /\ mem' = mem /\ tstat' = tstat
            /\ pc'[t] = "idle" => sem' = 1]_vars

\* hashtable_lookup returned the value of the last key of a chain of two,
\* which is not the value of the first
LookedUpTailOfChain ==
    /\ size = 1
    /\ Len(BucketKeys(0)) = 2
    /\ ret[MainThread].name = "lookup"
    /\ ret[MainThread].val # NULL
    /\ ret[MainThread].val = elems[HomeAddr(BucketKeys(0)[2])].e
    /\ elems[HomeAddr(BucketKeys(0)[1])].e # ret[MainThread].val

\* C25: hashtable_get_keys returns the count, leaves the table unchanged
\* and posts the semaphore; it leaves the caller's pointer as it was when
\* the count is 0 and also when the allocation of the array fails, and
\* sets it, to the array it filled, only when the count is greater than 0
\* and the allocation succeeds.
GetKeysFrame(t) ==
    /\ ret'[t].val = count
    /\ tvars' = tvars
    /\ sem' = 1

StepsInside(t) == pc[t] \in {"wait", "cs", "store"} /\ pc'[t] # pc[t]

ReleaseNullChangesNothing(t) ==
    (pc[t] = "idle" /\ pc'[t] = "idle" /\ ret'[t] # ret[t]) =>
        tvars' = tvars /\ tstat' = tstat /\ sem' = sem /\ mem' = mem

ReleaseSafeInFlight ==
    [][\A t \in Threads :
        /\ ReleaseNullChangesNothing(t)
        /\ (tstat' # tstat \/ elems' # elems \/ vstat' # vstat) =>
                \A u \in Threads \ {t} : pc[t] = "cs" => ~InCS(u)
        /\ tstat.hashtable = "freed" => ~StepsInside(t)]_vars

====
